---- MODULE Spec2Model ----
(***************************************************************************)
(* A model of the local RAG pipeline: KnowledgeBase (sentence-preserving   *)
(* chunking), RetrievalSystem (FAISS flat L2 index), Generation (LLM with  *)
(* template fallback).                                                     *)
(*                                                                         *)
(* Text is modelled character by character: a string is a sequence of      *)
(* one-character strings, so splitting, joining and slicing are computed   *)
(* as the Python code computes them.                                       *)
(***************************************************************************)
EXTENDS Integers, Sequences, FiniteSets, TLC

VARIABLES
    \* KnowledgeBase fields
    chunk_size, chunk_overlap, kb_documents, kb_chunks,
    \* chunk_text: its argument, its locals and its position
    text, sentences, si, chunks, current_chunk, current_length, pc,
    \* RetrievalSystem fields
    dimension, index, rs_documents,
    \* the object the calls are made on, and the outcome of the last call
    obj, ret,
    \* Generation fields, the constructor's inputs, the calls made to
    \* ollama.chat, and the outcome of the last generate call
    use_llm, gen_args, chat_calls, gen_ret,
    \* concurrent rebuild: the builder's and the searcher's positions and locals
    b_pc, b_args, s_pc, s_args, s_found, s_results

kbVars == <<chunk_size, chunk_overlap, kb_documents, kb_chunks>>
ctVars == <<text, sentences, si, chunks, current_chunk, current_length, pc>>
rsVars == <<dimension, index, rs_documents>>
genVars == <<use_llm, gen_args, chat_calls, gen_ret>>
concVars == <<b_pc, b_args, s_pc, s_args, s_found, s_results>>
vars == <<kbVars, ctVars, rsVars, obj, ret, genVars, concVars>>

----------------------------------------------------------------------------
(* Bounds of the model *)

MaxTextLen == 7
MaxChunkSize == 3
MaxOverlap == 2

----------------------------------------------------------------------------
(* Characters and strings *)

Alphabet == {"a", ".", " "}
Whitespace == {" ", "\n", "\t"}
Terminators == {".", "!", "?"}

Min(a, b) == IF a < b THEN a ELSE b
Max(a, b) == IF a > b THEN a ELSE b

Texts == UNION {[1..n -> Alphabet] : n \in 0..MaxTextLen}

RECURSIVE DropSpaces(_)
DropSpaces(t) ==
    IF t # <<>> /\ Head(t) \in Whitespace THEN DropSpaces(Tail(t)) ELSE t

\* re.sub(r'\s+', ' ', text)
RECURSIVE Collapse(_)
Collapse(t) ==
    IF t = <<>> THEN <<>>
    ELSE IF Head(t) \in Whitespace
         THEN <<" ">> \o Collapse(DropSpaces(Tail(t)))
         ELSE <<Head(t)>> \o Collapse(Tail(t))

RECURSIVE DropTrailingSpaces(_)
DropTrailingSpaces(t) ==
    IF t # <<>> /\ t[Len(t)] \in Whitespace
    THEN DropTrailingSpaces(SubSeq(t, 1, Len(t) - 1))
    ELSE t

\* str.strip()
Strip(t) == DropTrailingSpaces(DropSpaces(t))

\* re.split(r'(?<=[.!?])\s+', text): cur is the piece being read; a
\* whitespace run splits only where the character before it is a terminator
RECURSIVE RegexSplit(_, _)
RegexSplit(t, cur) ==
    IF t = <<>> THEN <<cur>>
    ELSE IF Head(t) \in Whitespace /\ cur # <<>> /\ cur[Len(cur)] \in Terminators
         THEN <<cur>> \o RegexSplit(DropSpaces(Tail(t)), <<>>)
         ELSE RegexSplit(Tail(t), Append(cur, Head(t)))

sent_tokenize(t) ==
    SelectSeq(RegexSplit(Strip(Collapse(t)), <<>>), LAMBDA s : s # <<>>)

\* str.split(): the maximal runs of non-whitespace characters
RECURSIVE SplitWords(_, _)
SplitWords(t, cur) ==
    IF t = <<>> THEN (IF cur = <<>> THEN <<>> ELSE <<cur>>)
    ELSE IF Head(t) \in Whitespace
         THEN (IF cur = <<>> THEN <<>> ELSE <<cur>>) \o SplitWords(Tail(t), <<>>)
         ELSE SplitWords(Tail(t), Append(cur, Head(t)))

Words(t) == SplitWords(t, <<>>)

\* " ".join(words)
RECURSIVE Join(_)
Join(ws) ==
    IF ws = <<>> THEN <<>>
    ELSE IF Len(ws) = 1 THEN ws[1]
    ELSE ws[1] \o <<" ">> \o Join(Tail(ws))

\* seq[start:] with Python's reading of the start: a negative start counts
\* from the end, and -0 is 0
PySliceFrom(s, start) ==
    LET from == IF start < 0 THEN Max(Len(s) + start, 0) ELSE Min(start, Len(s))
    IN SubSeq(s, from + 1, Len(s))

----------------------------------------------------------------------------
(* KnowledgeBase.chunk_text *)

OverlapWordsHead(cur, overlap) ==
    IF overlap < Len(cur) THEN SubSeq(cur, 1, overlap) ELSE cur

\* current_chunk[-self.chunk_overlap:] if self.chunk_overlap < len(current_chunk)
\* else current_chunk
OverlapWords(cur, overlap) ==
    IF overlap < Len(cur) THEN PySliceFrom(cur, 0 - overlap) ELSE cur

\* the loop body without the reset of current_length to the length of the
\* seed
ChunkLoopBodyStaleLength(st, sent, size, overlap) ==
    LET words == Words(sent)
        sent_length == Len(words)
        closes == st.current_length + sent_length > size /\ st.current_chunk # <<>>
        seed == OverlapWords(st.current_chunk, overlap)
    IN IF closes
       THEN [chunks |-> Append(st.chunks, Join(st.current_chunk)),
             current_chunk |-> seed \o words,
             current_length |-> st.current_length + sent_length]
       ELSE [chunks |-> st.chunks,
             current_chunk |-> st.current_chunk \o words,
             current_length |-> st.current_length + sent_length]

\* one iteration of the loop over the sentences
ChunkLoopBody(st, sent, size, overlap) ==
    LET words == Words(sent)
        sent_length == Len(words)
        closes == st.current_length + sent_length > size /\ st.current_chunk # <<>>
        seed == OverlapWords(st.current_chunk, overlap)
    IN IF closes
       THEN [chunks |-> Append(st.chunks, Join(st.current_chunk)),
             current_chunk |-> seed \o words,
             current_length |-> Len(seed) + sent_length]
       ELSE [chunks |-> st.chunks,
             current_chunk |-> st.current_chunk \o words,
             current_length |-> st.current_length + sent_length]

ChunkFinishNoFlush(st) == st.chunks

\* the statements after the loop
ChunkFinish(st) ==
    IF st.current_chunk # <<>>
    THEN Append(st.chunks, Join(st.current_chunk))
    ELSE st.chunks

RECURSIVE ChunkLoop(_, _, _, _)
ChunkLoop(st, sents, size, overlap) ==
    IF sents = <<>> THEN st
    ELSE ChunkLoop(ChunkLoopBody(st, Head(sents), size, overlap), Tail(sents), size, overlap)

chunk_text(t, size, overlap) ==
    ChunkFinish(ChunkLoop([chunks |-> <<>>, current_chunk |-> <<>>, current_length |-> 0],
                          sent_tokenize(t), size, overlap))

----------------------------------------------------------------------------
(* Values of the variables an object or a call not under study holds *)

NoCall == [op |-> "none", err |-> "none", args |-> <<>>, val |-> <<>>]

KbFresh == kb_documents = <<>> /\ kb_chunks = <<>>
KbAbsent == chunk_size = 0 /\ chunk_overlap = 0 /\ KbFresh
CtIdle ==
    /\ text = <<>> /\ sentences = <<>> /\ si = 1 /\ chunks = <<>>
    /\ current_chunk = <<>> /\ current_length = 0 /\ pc = "idle"
\* self.index = None
NoneIndex == [is_none |-> TRUE, d |-> 0, vecs |-> <<>>]
RsAbsent == dimension = 0 /\ index = NoneIndex /\ rs_documents = <<>>
GenAbsent ==
    /\ use_llm = FALSE /\ gen_args = [use_llm |-> FALSE, list_ok |-> FALSE]
    /\ chat_calls = 0 /\ gen_ret = NoCall
ConcIdle ==
    /\ b_pc = "idle" /\ b_args = NoCall /\ s_pc = "idle" /\ s_args = NoCall
    /\ s_found = <<>> /\ s_results = <<>>

----------------------------------------------------------------------------
(* chunk_text, one loop iteration at a time *)

InitChunk ==
    /\ chunk_size \in 1..MaxChunkSize
    /\ chunk_overlap \in 0..MaxOverlap
    /\ KbFresh
    /\ text \in Texts
    /\ sentences = sent_tokenize(text)
    /\ si = 1
    /\ chunks = <<>>
    /\ current_chunk = <<>>
    /\ current_length = 0
    /\ pc = "loop"
    /\ RsAbsent /\ obj = "chunk_text" /\ ret = NoCall /\ GenAbsent /\ ConcIdle

ChunkSentence ==
    /\ pc = "loop"
    /\ si <= Len(sentences)
    /\ LET st == ChunkLoopBody([chunks |-> chunks, current_chunk |-> current_chunk,
                                current_length |-> current_length],
                               sentences[si], chunk_size, chunk_overlap)
       IN /\ chunks' = st.chunks
          /\ current_chunk' = st.current_chunk
          /\ current_length' = st.current_length
    /\ si' = si + 1
    /\ UNCHANGED <<text, sentences, pc, kbVars, rsVars, obj, ret, genVars, concVars>>

ChunkReturn ==
    /\ pc = "loop"
    /\ si > Len(sentences)
    /\ chunks' = ChunkFinish([chunks |-> chunks, current_chunk |-> current_chunk,
                              current_length |-> current_length])
    /\ pc' = "done"
    /\ UNCHANGED <<text, sentences, si, current_chunk, current_length,
                   kbVars, rsVars, obj, ret, genVars, concVars>>

NextChunk == ChunkSentence \/ ChunkReturn

SpecChunk == InitChunk /\ [][NextChunk]_vars

----------------------------------------------------------------------------
(* KnowledgeBase.load_pdf_data and create_chunks *)

\* the PDFs read: each a list of the texts page.extract_text() gives, one per
\* page
PdfPages == {
    <<>>,
    << <<" ">>, <<>> >>,
    << <<"a", ".", " ", "a">>, <<" ">>, <<".", " ", "a", ".", " ", "a">> >> }

\* the loop over reader.pages: pages with no text are left out, the page
\* number is the position in the PDF
RECURSIVE LoadPages(_, _)
LoadPages(pages, i) ==
    IF i > Len(pages) THEN <<>>
    ELSE (IF Strip(pages[i]) # <<>>
          THEN <<[page |-> i, content |-> Strip(pages[i])]>>
          ELSE <<>>) \o LoadPages(pages, i + 1)

\* what pdf_path names: no file, or a PDF
PdfFiles ==
    {[exists |-> FALSE, pages |-> <<>>]} \cup {[exists |-> TRUE, pages |-> p] : p \in PdfPages}

load_pdf_data(pdf) ==
    IF ~pdf.exists
    THEN /\ ret' = [op |-> "load_pdf_data", err |-> "FileNotFoundError",
                    args |-> pdf, val |-> <<>>]
         /\ UNCHANGED kb_documents
    ELSE /\ kb_documents' = LoadPages(pdf.pages, 1)
         /\ ret' = [op |-> "load_pdf_data", err |-> "none", args |-> pdf,
                    val |-> LoadPages(pdf.pages, 1)]

LoadPdfData ==
    /\ obj = "KnowledgeBase"
    /\ \E pdf \in PdfFiles : load_pdf_data(pdf)
    /\ UNCHANGED <<chunk_size, chunk_overlap, kb_chunks, ctVars, rsVars, obj, genVars, concVars>>

\* the chunks of one page, each with the page's number
PageChunks(doc, size, overlap) ==
    LET cs == chunk_text(doc.content, size, overlap)
    IN [j \in 1..Len(cs) |-> [page |-> doc.page, chunk |-> cs[j]]]

RECURSIVE AllChunks(_, _, _)
AllChunks(docs, size, overlap) ==
    IF docs = <<>> THEN <<>>
    ELSE PageChunks(Head(docs), size, overlap) \o AllChunks(Tail(docs), size, overlap)

\* create_chunks without the reset of self.chunks: a call appends to what the
\* calls before it left
create_chunks_accumulating ==
    IF kb_documents = <<>>
    THEN /\ ret' = [op |-> "create_chunks", err |-> "ValueError",
                    args |-> <<>>, val |-> <<>>]
         /\ UNCHANGED kb_chunks
    ELSE /\ kb_chunks' = kb_chunks \o AllChunks(kb_documents, chunk_size, chunk_overlap)
         /\ ret' = [op |-> "create_chunks", err |-> "none", args |-> <<>>,
                    val |-> kb_chunks \o AllChunks(kb_documents, chunk_size, chunk_overlap)]

create_chunks ==
    IF kb_documents = <<>>
    THEN /\ ret' = [op |-> "create_chunks", err |-> "ValueError",
                    args |-> <<>>, val |-> <<>>]
         /\ UNCHANGED kb_chunks
    ELSE /\ kb_chunks' = AllChunks(kb_documents, chunk_size, chunk_overlap)
         /\ ret' = [op |-> "create_chunks", err |-> "none", args |-> <<>>,
                    val |-> AllChunks(kb_documents, chunk_size, chunk_overlap)]

CreateChunks ==
    /\ obj = "KnowledgeBase"
    /\ create_chunks
    /\ UNCHANGED <<chunk_size, chunk_overlap, kb_documents, ctVars, rsVars, obj, genVars, concVars>>

----------------------------------------------------------------------------
(* RetrievalSystem: build_index and search over a FAISS IndexFlatL2 *)

MaxDocs == 2
MaxTopK == 3

\* the distance faiss reports for a result slot it could not fill (the
\* largest float32, 3.4e38; here a number above every distance of the model)
FLT_MAX == 1000000000

DimChoices == {1, 2}
Coord == {0, 1}
Vectors(d) == [1..d -> Coord]

\* a numpy array of shape (n, d)
Arrays == UNION {{[d |-> d, rows |-> r] : r \in [1..n -> Vectors(d)]} :
                 <<n, d>> \in (0..MaxDocs) \X DimChoices}

ShortChunk(b) == IF b = 1 THEN <<"a", ".">> ELSE <<".", " ", "a">>

\* the document lists handed to build_index: chunk records, told apart by
\* their page and, between two builds, by their text
DocList(b, m) == [i \in 1..m |-> [page |-> i, chunk |-> ShortChunk(b)]]
DocLists == {DocList(1, m) : m \in 0..MaxDocs}

\* faiss.IndexFlatL2(d)
IndexFlatL2(d) == [is_none |-> FALSE, d |-> d, vecs |-> <<>>]

RECURSIVE L2Sqr(_, _)
L2Sqr(v, q) ==
    IF v = <<>> THEN 0
    ELSE (v[1] - q[1]) * (v[1] - q[1]) + L2Sqr(Tail(v), Tail(q))

\* index.search(query_array, top_k) on one query: the label sequences faiss
\* may return. The first min(k, ntotal) labels are distinct 0-based positions
\* in ascending distance, no position left out is nearer than one returned,
\* and the slots beyond ntotal hold -1. The order among equal distances is
\* left to faiss.
FaissLabels(ix, q, k) ==
    LET n == Len(ix.vecs)
        m == Min(k, n)
        dist(l) == L2Sqr(ix.vecs[l + 1], q)
        best == {L \in [1..m -> 0..(n - 1)] :
                    /\ \A i, j \in 1..m : i # j => L[i] # L[j]
                    /\ \A i \in 1..(m - 1) : dist(L[i]) <= dist(L[i + 1])
                    /\ \A l \in 0..(n - 1) :
                         (\A i \in 1..m : L[i] # l) => \A i \in 1..m : dist(L[i]) <= dist(l)}
    IN {[i \in 1..k |-> IF i <= m THEN L[i] ELSE 0 - 1] : L \in best}

FaissDistances(ix, q, labels) ==
    [i \in 1..Len(labels) |->
        IF labels[i] < 0 THEN FLT_MAX ELSE L2Sqr(ix.vecs[labels[i] + 1], q)]

\* list[idx]: a negative idx counts from the end
PyIndexOk(s, idx) == idx < Len(s) /\ idx >= 0 - Len(s)
PyIndex(s, idx) == IF idx < 0 THEN s[Len(s) + idx + 1] ELSE s[idx + 1]

\* 1 / (1 + float(distance)), kept as a fraction
Similarity(distance) == [num |-> 1, den |-> 1 + distance]

FormatResultsZeroBased(docs, labels, distances) ==
    [i \in 1..Len(labels) |->
        [rank |-> i - 1,
         document |-> PyIndex(docs, labels[i]),
         similarity |-> Similarity(distances[i]),
         distance |-> distances[i]]]

\* the loop that formats the results, the ranks counted from 1
FormatResults(docs, labels, distances) ==
    [i \in 1..Len(labels) |->
        [rank |-> i,
         document |-> PyIndex(docs, labels[i]),
         similarity |-> Similarity(distances[i]),
         distance |-> distances[i]]]

build_index(embeddings, documents) ==
    /\ rs_documents' = documents
    /\ IF embeddings.d = dimension
       THEN /\ index' = [IndexFlatL2(dimension) EXCEPT !.vecs = embeddings.rows]
            /\ ret' = [op |-> "build_index", err |-> "none",
                       args |-> <<Len(embeddings.rows), embeddings.d, Len(documents)>>,
                       val |-> <<>>]
       ELSE \* index.add asserts the dimension, after self.index was assigned
            /\ index' = IndexFlatL2(dimension)
            /\ ret' = [op |-> "build_index", err |-> "AssertionError",
                       args |-> <<Len(embeddings.rows), embeddings.d, Len(documents)>>,
                       val |-> <<>>]

BuildIndex ==
    /\ obj = "RetrievalSystem"
    /\ \E embeddings \in Arrays, documents \in DocLists : build_index(embeddings, documents)
    /\ UNCHANGED <<dimension, kbVars, ctVars, obj, genVars, concVars>>

search(q, top_k) ==
    /\ UNCHANGED rsVars
    /\ IF index.is_none
       THEN \* None has no attribute 'search'
            ret' = [op |-> "search", err |-> "AttributeError",
                    args |-> <<q, top_k>>, val |-> <<>>]
       ELSE IF Len(q) # index.d
       THEN ret' = [op |-> "search", err |-> "AssertionError",
                    args |-> <<q, top_k>>, val |-> <<>>]
       ELSE \E labels \in FaissLabels(index, q, top_k) :
              IF \A i \in 1..top_k : PyIndexOk(rs_documents, labels[i])
              THEN ret' = [op |-> "search", err |-> "none", args |-> <<q, top_k>>,
                           val |-> FormatResults(rs_documents, labels,
                                                 FaissDistances(index, q, labels))]
              ELSE ret' = [op |-> "search", err |-> "IndexError",
                           args |-> <<q, top_k>>, val |-> <<>>]

Search ==
    /\ obj = "RetrievalSystem"
    /\ \E d \in DimChoices : \E q \in Vectors(d), top_k \in 1..MaxTopK : search(q, top_k)
    /\ UNCHANGED <<kbVars, ctVars, obj, genVars, concVars>>

----------------------------------------------------------------------------
(* The objects in use, one call at a time *)

\* KnowledgeBase(pdf_path, chunk_size, chunk_overlap)
InitKnowledgeBase ==
    /\ obj = "KnowledgeBase"
    /\ chunk_size \in 1..MaxChunkSize
    /\ chunk_overlap \in 0..MaxOverlap
    /\ KbFresh
    /\ RsAbsent

\* RetrievalSystem(dimension)
InitRetrievalSystem ==
    /\ obj = "RetrievalSystem"
    /\ dimension \in DimChoices
    /\ index = NoneIndex
    /\ rs_documents = <<>>
    /\ KbAbsent

\* a KnowledgeBase or a RetrievalSystem, just constructed: the two share no
\* state, so a run makes its calls on one of them
Init ==
    /\ InitKnowledgeBase \/ InitRetrievalSystem
    /\ CtIdle
    /\ ret = NoCall
    /\ GenAbsent /\ ConcIdle

Next == LoadPdfData \/ CreateChunks \/ BuildIndex \/ Search

Spec == Init /\ [][Next]_vars

----------------------------------------------------------------------------
(* Generation: __init__, generate, _generate_with_llm, _generate_template *)

MaxChatCalls == 2

\* the preview lengths of the source citations and of the template passages
SourcePreviewLen == 150
TemplatePreviewLen == 300

LongText(n) == [i \in 1..n |-> "a"]

\* the corpora searched for the results handed to generate: chunks shorter
\* than both preview lengths, between them, and longer than both
GenCorpora == {
    [index |-> [is_none |-> FALSE, d |-> 1, vecs |-> << <<1>> >>],
     docs |-> << [page |-> 1, chunk |-> <<"a", ".">>] >>],
    [index |-> [is_none |-> FALSE, d |-> 1, vecs |-> << <<0>>, <<1>>, <<1>> >>],
     docs |-> << [page |-> 2, chunk |-> LongText(TemplatePreviewLen + 1)],
                 [page |-> 2, chunk |-> LongText(SourcePreviewLen + 1)],
                 [page |-> 5, chunk |-> LongText(SourcePreviewLen)] >>] }

\* the result lists search produces over them
GenResults ==
    UNION {{FormatResults(c.docs, labels, FaissDistances(c.index, <<q>>, labels)) :
              labels \in FaissLabels(c.index, <<q>>, k)} :
           <<c, q, k>> \in GenCorpora \X Coord \X (1..MaxTopK)}

\* the prompts handed to generate
GenPrompts == {
    <<>>,
    <<"Q", ":", " ", "a">>,
    <<"Q", ":", " ", "a", "\n", "\n", "C", "\n", "a", ".">> }

\* what ollama.chat does: it returns a response with its content, it raises,
\* or it returns a response that lacks 'message', lacks 'content', or whose
\* content is None
ChatOutcomes == {"ok", "raises", "no_message", "no_content", "content_none"}
ChatContent == <<"a", "n", "s">>

\* enriched_context.split('\n')[0]
RECURSIVE FirstLine(_)
FirstLine(t) ==
    IF t = <<>> \/ Head(t) = "\n" THEN <<>> ELSE <<Head(t)>> \o FirstLine(Tail(t))

\* text[:n] + "..." if len(text) > n else text
Preview(t, n) == IF Len(t) > n THEN SubSeq(t, 1, n) \o <<".", ".", ".">> ELSE t

\* f"{similarity:.1%}": the similarity in tenths of a percent, rounded half
\* to even
Percent1(sim) ==
    LET q == (1000 * sim.num) \div sim.den
        r == (1000 * sim.num) % sim.den
    IN IF 2 * r > sim.den \/ (2 * r = sim.den /\ q % 2 = 1) THEN q + 1 ELSE q

\* the numbered entries both kinds of answer list, one per result, in order
Passages(results, n) ==
    [i \in 1..Len(results) |->
        [number |-> i,
         page |-> results[i].document.page,
         similarity |-> Percent1(results[i].similarity),
         preview |-> Preview(results[i].document.chunk, n)]]

_generate_template(enriched_context, retrieved_results) ==
    [err |-> "none",
     val |-> [mode |-> "template",
              question_line |-> FirstLine(enriched_context),
              found |-> Len(retrieved_results),
              passages |-> Passages(retrieved_results, TemplatePreviewLen)]]

\* the statements of the try block, when none of them raises
LlmAnswer(retrieved_results) ==
    [err |-> "none",
     val |-> [mode |-> "llm",
              content |-> ChatContent,
              sources |-> Passages(retrieved_results, SourcePreviewLen)]]

\* the exception the try block raises under a chat outcome
TryBlockError(chat) ==
    CASE chat = "ok" -> "none"
      [] chat = "raises" -> "ConnectionError"
      [] chat = "no_message" -> "KeyError"
      [] chat = "no_content" -> "KeyError"
      [] chat = "content_none" -> "TypeError"

_generate_with_llm_narrow(enriched_context, retrieved_results, chat) ==
    IF TryBlockError(chat) = "none"
    THEN LlmAnswer(retrieved_results)
    ELSE IF TryBlockError(chat) = "ConnectionError"
    THEN _generate_template(enriched_context, retrieved_results)
    ELSE [err |-> TryBlockError(chat), val |-> <<>>]

\* try: ... except Exception: return self._generate_template(...)
_generate_with_llm(enriched_context, retrieved_results, chat) ==
    IF TryBlockError(chat) = "none"
    THEN LlmAnswer(retrieved_results)
    ELSE _generate_template(enriched_context, retrieved_results)

ModeAfterGenerateDemoted(mode, chat) == mode /\ chat = "ok"

\* generate assigns nothing to self.use_llm
ModeAfterGenerate(mode, chat) == mode

generate(enriched_context, retrieved_results, chat) ==
    LET out == IF use_llm
               THEN _generate_with_llm(enriched_context, retrieved_results, chat)
               ELSE _generate_template(enriched_context, retrieved_results)
    IN /\ gen_ret' = [op |-> "generate", err |-> out.err,
                      args |-> [prompt |-> enriched_context,
                                results |-> retrieved_results, chat |-> chat],
                      val |-> out.val]
       /\ chat_calls' = IF use_llm THEN chat_calls + 1 ELSE chat_calls
       /\ use_llm' = ModeAfterGenerate(use_llm, chat)

Generate ==
    /\ obj = "Generation"
    /\ chat_calls < MaxChatCalls
    /\ \E p \in GenPrompts, r \in GenResults, chat \in ChatOutcomes : generate(p, r, chat)
    /\ UNCHANGED <<gen_args, kbVars, ctVars, rsVars, obj, ret, concVars>>

InitUseLlmUnchecked(arg, list_ok) == arg

\* self.use_llm = use_llm, then False when ollama.list() raises
InitUseLlm(arg, list_ok) == arg /\ list_ok

\* Generation(model_name, use_llm), with ollama.list() answering or raising
InitGen ==
    /\ obj = "Generation"
    /\ gen_args \in [use_llm : BOOLEAN, list_ok : BOOLEAN]
    /\ use_llm = InitUseLlm(gen_args.use_llm, gen_args.list_ok)
    /\ chat_calls = 0
    /\ gen_ret = NoCall
    /\ KbAbsent /\ CtIdle /\ RsAbsent /\ ret = NoCall /\ ConcIdle

NextGen == Generate

SpecGen == InitGen /\ [][NextGen]_vars

----------------------------------------------------------------------------
(* Augmentation.create_context *)

MaxQueryLen == 3

\* the queries: every string up to MaxQueryLen over a letter, a dash and a
\* line break
QueryAlphabet == {"a", "-", "\n"}
AugQueries == UNION {[1..n -> QueryAlphabet] : n \in 0..MaxQueryLen}

\* the corpus searched for the results handed to create_context: a page
\* number of two digits, a chunk that reads like the separator line
AugCorpus ==
    [index |-> [is_none |-> FALSE, d |-> 1, vecs |-> << <<0>>, <<1>>, <<1>> >>],
     docs |-> << [page |-> 1, chunk |-> <<"a", ".">>],
                 [page |-> 12, chunk |-> <<"-", "-", "-">>],
                 [page |-> 3, chunk |-> <<"a", " ", "a">>] >>]

\* the result lists: none, and those search produces over the corpus
AugResults ==
    {<<>>} \cup
    UNION {{FormatResults(AugCorpus.docs, labels,
                          FaissDistances(AugCorpus.index, <<q>>, labels)) :
              labels \in FaissLabels(AugCorpus.index, <<q>>, k)} :
           <<q, k>> \in Coord \X (1..MaxTopK)}

\* the literal text of the f-strings
PageOpen ==
    << "[", "P", "a", "g", "e", " " >>
PageClose ==
    << "]", "\n" >>
RelevanceLabel ==
    << "R", "e", "l", "e", "v", "a", "n", "c", "e", ":", " " >>
Separator ==
    << "\n", "-", "-", "-", "\n" >>
QuestionLabel ==
    << "Q", "U", "E", "S", "T", "I", "O", "N", ":", " " >>
ContextHeader ==
    << "\n", "\n", "R", "E", "L", "E", "V", "A", "N", "T", " ", "C", "O",
       "N", "T", "E", "X", "T", " ", "F", "R", "O", "M", " ", "P", "D",
       "F", ":", "\n" >>
InstructionSuffix ==
    << "\n", "\n", "I", "N", "S", "T", "R", "U", "C", "T", "I", "O", "N",
       "S", ":", " ", "A", "n", "s", "w", "e", "r", " ", "t", "h", "e",
       " ", "q", "u", "e", "s", "t", "i", "o", "n", " ", "u", "s", "i",
       "n", "g", " ", "t", "h", "e", " ", "c", "o", "n", "t", "e", "x",
       "t", " ", "a", "b", "o", "v", "e", "." >>

DigitChars == <<"0", "1", "2", "3", "4", "5", "6", "7", "8", "9">>

\* str(n) of a natural number, as f"{doc['page']}" renders it
RECURSIVE Str(_)
Str(n) ==
    IF n < 10 THEN <<DigitChars[n + 1]>>
    ELSE Str(n \div 10) \o <<DigitChars[(n % 10) + 1]>>

\* f"{similarity:.2%}": the similarity in hundredths of a percent, rounded
\* half to even, then written with two decimals and a percent sign
Percent2(sim) ==
    LET q == (10000 * sim.num) \div sim.den
        r == (10000 * sim.num) % sim.den
    IN IF 2 * r > sim.den \/ (2 * r = sim.den /\ q % 2 = 1) THEN q + 1 ELSE q

Percent2Str(sim) ==
    LET h == Percent2(sim)
    IN Str(h \div 100) \o <<".">>
         \o <<DigitChars[((h % 100) \div 10) + 1], DigitChars[(h % 10) + 1]>>
         \o <<"%">>

\* the entry appended to context_parts for one result
ContextPart(result) ==
    PageOpen \o Str(result.document.page) \o PageClose
      \o RelevanceLabel \o Percent2Str(result.similarity) \o <<"\n">>
      \o result.document.chunk \o <<"\n">>

\* context_parts built last result first
ContextPartsReversed(retrieved_results) ==
    [i \in 1..Len(retrieved_results) |->
        ContextPart(retrieved_results[Len(retrieved_results) + 1 - i])]

\* context_parts after the loop over retrieved_results
ContextParts(retrieved_results) ==
    [i \in 1..Len(retrieved_results) |-> ContextPart(retrieved_results[i])]

\* sep.join(parts)
RECURSIVE JoinWith(_, _)
JoinWith(sep, parts) ==
    IF parts = <<>> THEN <<>>
    ELSE IF Len(parts) = 1 THEN Head(parts)
    ELSE Head(parts) \o sep \o JoinWith(sep, Tail(parts))

create_context(query, retrieved_results) ==
    QuestionLabel \o query \o ContextHeader
      \o JoinWith(Separator, ContextParts(retrieved_results))
      \o InstructionSuffix

CreateContext ==
    /\ obj = "Augmentation"
    /\ \E query \in AugQueries, retrieved_results \in AugResults :
         ret' = [op |-> "create_context", err |-> "none",
                 args |-> <<query, retrieved_results>>,
                 val |-> create_context(query, retrieved_results)]
    /\ UNCHANGED <<kbVars, ctVars, rsVars, obj, genVars, concVars>>

\* Augmentation() holds no fields
InitAug ==
    /\ obj = "Augmentation"
    /\ ret = NoCall
    /\ KbAbsent /\ CtIdle /\ RsAbsent /\ GenAbsent /\ ConcIdle

NextAug == CreateContext

SpecAug == InitAug /\ [][NextAug]_vars

----------------------------------------------------------------------------
(* build_index run again on a RetrievalSystem while a search is in flight:  *)
(* one thread in build_index, one in search, each read or write of a field  *)
(* of the object a step                                                     *)

\* the arrays and document lists of a build whose counts and dimension agree
ConsistentBuilds(b, d) ==
    {[rows |-> a.rows, docs |-> DocList(b, Len(a.rows))] :
        a \in {x \in Arrays : x.d = d /\ Len(x.rows) >= 1}}

BuiltIndex(d, rows) == [IndexFlatL2(d) EXCEPT !.vecs = rows]

\* a RetrievalSystem on which build_index has completed once
InitConc ==
    /\ obj = "RetrievalSystem"
    /\ dimension = 1
    /\ \E old \in ConsistentBuilds(1, dimension) :
         /\ index = BuiltIndex(dimension, old.rows)
         /\ rs_documents = old.docs
         /\ b_args = [old_rows |-> old.rows, old_docs |-> old.docs,
                      rows |-> <<>>, docs |-> <<>>]
    /\ b_pc = "idle"
    /\ s_pc = "idle" /\ s_args = NoCall /\ s_found = <<>> /\ s_results = <<>>
    /\ KbAbsent /\ CtIdle /\ ret = NoCall /\ GenAbsent

\* build_index(embeddings, documents) is called
BuildCall ==
    /\ b_pc = "idle"
    /\ \E new \in ConsistentBuilds(2, dimension) :
         b_args' = [b_args EXCEPT !.rows = new.rows, !.docs = new.docs]
    /\ b_pc' = "documents"
    /\ UNCHANGED <<rsVars, s_pc, s_args, s_found, s_results, kbVars, ctVars, obj, ret, genVars>>

\* self.documents = documents
BuildSetDocuments ==
    /\ b_pc = "documents"
    /\ rs_documents' = b_args.docs
    /\ b_pc' = "index"
    /\ UNCHANGED <<dimension, index, b_args, s_pc, s_args, s_found, s_results,
                   kbVars, ctVars, obj, ret, genVars>>

\* self.index = faiss.IndexFlatL2(self.dimension)
BuildSetIndex ==
    /\ b_pc = "index"
    /\ index' = IndexFlatL2(dimension)
    /\ b_pc' = "add"
    /\ UNCHANGED <<dimension, rs_documents, b_args, s_pc, s_args, s_found, s_results,
                   kbVars, ctVars, obj, ret, genVars>>

\* self.index.add(embeddings_array), and the return
BuildAdd ==
    /\ b_pc = "add"
    /\ index' = [index EXCEPT !.vecs = b_args.rows]
    /\ b_pc' = "built"
    /\ UNCHANGED <<dimension, rs_documents, b_args, s_pc, s_args, s_found, s_results,
                   kbVars, ctVars, obj, ret, genVars>>

\* search(query_embedding, top_k) is called
SearchCall ==
    /\ s_pc \in {"idle", "returned", "raised"}
    /\ \E q \in Vectors(dimension), top_k \in 1..MaxTopK :
         s_args' = [op |-> "search", err |-> "none", args |-> <<q, top_k>>, val |-> <<>>]
    /\ s_found' = <<>>
    /\ s_results' = <<>>
    /\ s_pc' = "index"
    /\ UNCHANGED <<rsVars, b_pc, b_args, kbVars, ctVars, obj, ret, genVars>>

\* distances, indices = self.index.search(query_array, top_k)
SearchIndex ==
    /\ s_pc = "index"
    /\ \E labels \in FaissLabels(index, s_args.args[1], s_args.args[2]) :
         s_found' = [labels |-> labels,
                     distances |-> FaissDistances(index, s_args.args[1], labels)]
    /\ s_pc' = "format"
    /\ UNCHANGED <<rsVars, b_pc, b_args, s_args, s_results, kbVars, ctVars, obj, ret, genVars>>

\* one iteration of the loop that formats the results: self.documents[idx]
\* is read anew in each
SearchFormat ==
    /\ s_pc = "format"
    /\ Len(s_results) < Len(s_found.labels)
    /\ LET i == Len(s_results) + 1
       IN IF PyIndexOk(rs_documents, s_found.labels[i])
          THEN /\ s_results' = Append(s_results,
                     [rank |-> i,
                      document |-> PyIndex(rs_documents, s_found.labels[i]),
                      similarity |-> Similarity(s_found.distances[i]),
                      distance |-> s_found.distances[i]])
               /\ s_pc' = s_pc
          ELSE /\ s_pc' = "raised"
               /\ UNCHANGED s_results
    /\ UNCHANGED <<rsVars, b_pc, b_args, s_args, s_found, kbVars, ctVars, obj, ret, genVars>>

\* return results
SearchReturn ==
    /\ s_pc = "format"
    /\ Len(s_results) = Len(s_found.labels)
    /\ s_pc' = "returned"
    /\ UNCHANGED <<rsVars, b_pc, b_args, s_args, s_found, s_results,
                   kbVars, ctVars, obj, ret, genVars>>

NextConc ==
    \/ BuildCall \/ BuildSetDocuments \/ BuildSetIndex \/ BuildAdd
    \/ SearchCall \/ SearchIndex \/ SearchFormat \/ SearchReturn

SpecConc == InitConc /\ [][NextConc]_vars

----------------------------------------------------------------------------
(* Claims about chunk_text *)

LastWords(ws, m) == SubSeq(ws, Len(ws) - m + 1, Len(ws))

\* the words chunk i+1 shares with chunk i when it is seeded with the last
\* min(overlap, word count) words of chunk i
SeedLen(cs, i, overlap) == Min(overlap, Len(Words(cs[i])))

OverlapHolds(cs, i, overlap) ==
    LET wi == Words(cs[i])
        wn == Words(cs[i + 1])
        m == SeedLen(cs, i, overlap)
    IN Len(wn) >= m /\ SubSeq(wn, 1, m) = LastWords(wi, m)

\* C8: with overlap > 0, for any two consecutive chunks of a page the last
\* min(overlap, word count of c[i]) words of c[i] are the leading words of
\* c[i+1]
C8_ChunkOverlap ==
    chunk_overlap > 0 =>
        \A i \in 1..(Len(chunks) - 1) : OverlapHolds(chunks, i, chunk_overlap)

\* a finished run with three chunks, one of them closed with more words than
\* the overlap, so that its seed is a proper suffix
C8_Witness ==
    /\ pc = "done" /\ chunk_overlap > 0 /\ Len(chunks) >= 3
    /\ \E i \in 1..(Len(chunks) - 1) : Len(Words(chunks[i])) > chunk_overlap

\* the overlap words chunk i (i > 1) was seeded with when chunk i-1 was closed
SeededWords(cs, i, overlap) == OverlapWords(Words(cs[i - 1]), overlap)

\* chunk i begins with the words it was seeded with
SeedLeads(cs, i, overlap) ==
    LET seed == SeededWords(cs, i, overlap)
        wi == Words(cs[i])
    IN Len(wi) >= Len(seed) /\ SubSeq(wi, 1, Len(seed)) = seed

\* what is left of the chunks from the i-th on, in order, once the words each
\* was seeded with are removed
RECURSIVE OwnWords(_, _, _)
OwnWords(cs, i, overlap) ==
    IF i > Len(cs) THEN <<>>
    ELSE (IF i = 1 THEN Words(cs[1])
          ELSE PySliceFrom(Words(cs[i]),
                           Min(Len(SeededWords(cs, i, overlap)), Len(Words(cs[i])))))
         \o OwnWords(cs, i + 1, overlap)

\* C9: every chunk after the first begins with the overlap words it was
\* seeded with; removing them and concatenating what remains of all chunks in
\* order gives the word sequence of the whitespace-normalized text
C9_ChunkCoverage ==
    pc = "done" =>
        /\ \A i \in 2..Len(chunks) : SeedLeads(chunks, i, chunk_overlap)
        /\ OwnWords(chunks, 1, chunk_overlap) = Words(Strip(Collapse(text)))

\* a finished run over a text that normalization changes, with a seeded chunk
\* that holds words of its own
C9_Witness ==
    /\ pc = "done" /\ Len(chunks) >= 2 /\ chunk_overlap >= 1
    /\ text # Strip(Collapse(text))
    /\ Len(Words(chunks[2])) > Len(SeededWords(chunks, 2, chunk_overlap))
    /\ Len(Words(chunks[1])) > chunk_overlap

\* a step of the loop that closes the chunk under accumulation
ClosesChunk == si' = si + 1 /\ Len(chunks') = Len(chunks) + 1

\* the chunk started after closing one of n words opens with exactly the last
\* min(overlap, n) words of the closed chunk, the sentence at hand after them
SeededWithLast(overlap) ==
    LET n == Len(current_chunk)
        m == Min(overlap, n)
    IN current_chunk' = LastWords(current_chunk, m) \o Words(sentences[si])

\* C14: for every chunk_size and every overlap >= 0, when chunk_text closes a
\* chunk of n words the next chunk is seeded with exactly the last
\* min(overlap, n) words of the closed chunk, so the seeded region is never
\* longer than overlap words
C14_SeedBound ==
    [][ClosesChunk => SeededWithLast(chunk_overlap)]_vars

\* the seed of C14 for overlap >= 1
C14_PositiveOverlap ==
    [][(ClosesChunk /\ chunk_overlap >= 1) => SeededWithLast(chunk_overlap)]_vars

\* no sentence of the text has more than chunk_size - chunk_overlap words
ShortSentences ==
    \A i \in 1..Len(sentences) : Len(Words(sentences[i])) <= chunk_size - chunk_overlap

\* C15: at every point of the loop current_length is the number of words in
\* current_chunk; and for 1 <= overlap < chunk_size, when no sentence has more
\* than chunk_size - overlap words, no chunk, closed or under accumulation,
\* has more than chunk_size words
C15_ChunkSizeBound ==
    /\ current_length = Len(current_chunk)
    /\ (1 <= chunk_overlap /\ chunk_overlap < chunk_size /\ ShortSentences) =>
         /\ \A i \in 1..Len(chunks) : Len(Words(chunks[i])) <= chunk_size
         /\ Len(current_chunk) <= chunk_size

\* chunk_text has returned several chunks of a text of short sentences, one
\* of them a full chunk_size words long, closed by a sentence that did not fit
C15_Witness ==
    /\ pc = "done" /\ Len(chunks) >= 2
    /\ 1 <= chunk_overlap /\ chunk_overlap < chunk_size /\ ShortSentences
    /\ current_length = Len(current_chunk)
    /\ Len(Words(chunks[1])) = chunk_size

----------------------------------------------------------------------------
(* Claims about KnowledgeBase.load_pdf_data and create_chunks *)

\* the last call was a create_chunks that returned
Chunked == ret.op = "create_chunks" /\ ret.err = "none"

\* the texts of the chunks of cs that carry page number p, in their order in cs
ChunksOfPage(cs, p) ==
    LET own == SelectSeq(cs, LAMBDA c : c.page = p)
    IN [j \in 1..Len(own) |-> own[j].chunk]

\* page numbers never decrease along cs
InPageOrder(cs) == \A i \in 1..(Len(cs) - 1) : cs[i].page <= cs[i + 1].page

\* every chunk of cs belongs to a page of docs, and the chunks of each page
\* are that page's chunk_text result, first chunk first
LeftToRight(cs, docs, size, overlap) ==
    /\ \A i \in 1..Len(cs) : \E d \in 1..Len(docs) : docs[d].page = cs[i].page
    /\ \A d \in 1..Len(docs) :
         ChunksOfPage(cs, docs[d].page) = chunk_text(docs[d].content, size, overlap)

\* C11: a create_chunks call that returns leaves self.chunks in page order and
\* left to right within each page, and a call that follows another
\* create_chunks call (same documents, same parameters) leaves self.chunks as
\* that call left it: nothing is added, dropped or reordered
C11_ChunkingDeterminism ==
    [][(ret'.op = "create_chunks" /\ ret'.err = "none") =>
          /\ InPageOrder(kb_chunks')
          /\ LeftToRight(kb_chunks', kb_documents, chunk_size, chunk_overlap)
          /\ Chunked => kb_chunks' = kb_chunks]_vars

\* create_chunks has returned the chunks of two pages, one of them cut into
\* more than one chunk
C11_Witness ==
    /\ Chunked
    /\ kb_chunks = ret.val
    /\ \E i, j \in 1..Len(kb_chunks) : kb_chunks[i].page # kb_chunks[j].page
    /\ \E i \in 1..(Len(kb_chunks) - 1) : kb_chunks[i].page = kb_chunks[i + 1].page

\* texts that are empty or hold white space only
BlankTexts == {t \in Texts : Strip(t) = <<>>}

\* chunk_text returns no chunk for a blank text
BlankTextNoChunks ==
    \A t \in BlankTexts, size \in 1..MaxChunkSize, overlap \in 0..MaxOverlap :
        chunk_text(t, size, overlap) = <<>>

\* the last call was a load_pdf_data that returned, of a PDF with at least
\* one page and at least one page without text
LoadedWithBlankPage ==
    /\ ret.op = "load_pdf_data" /\ ret.err = "none"
    /\ \E i \in 1..Len(ret.args.pages) : Strip(ret.args.pages[i]) = <<>>

\* C13: chunk_text returns no chunk for empty or white-space-only text, and a
\* create_chunks call right after a load_pdf_data of a PDF in which some or
\* all pages have no text returns without an error, with no chunk for the
\* pages without text
C13_EmptyTextNoRaise ==
    [][/\ BlankTextNoChunks
       /\ (LoadedWithBlankPage /\ ret'.op = "create_chunks") =>
            /\ ret'.err = "none"
            /\ \A i \in 1..Len(ret.args.pages) :
                 Strip(ret.args.pages[i]) = <<>> =>
                    \A j \in 1..Len(kb_chunks') : kb_chunks'[j].page # i]_vars

\* the part of C13 about PDFs in which some page has text
C13_SomePageHasText ==
    [][/\ BlankTextNoChunks
       /\ (LoadedWithBlankPage /\ ret.val # <<>> /\ ret'.op = "create_chunks") =>
            /\ ret'.err = "none"
            /\ \A i \in 1..Len(ret.args.pages) :
                 Strip(ret.args.pages[i]) = <<>> =>
                    \A j \in 1..Len(kb_chunks') : kb_chunks'[j].page # i]_vars

----------------------------------------------------------------------------
(* Claims about RetrievalSystem and the order of the stages *)

\* the last call was a search that returned
Searched == ret.op = "search" /\ ret.err = "none"

\* self.index holds as many vectors as self.documents holds documents
BuiltOver(n) == ~index.is_none /\ Len(index.vecs) = n /\ Len(rs_documents) = n

\* C2: over an index built on n >= 1 entries, a search with top_k > n returns
\* exactly n results, each a distinct indexed entry
C2_TopKClamped ==
    \A n \in 1..MaxDocs :
        (ret.op = "search" /\ BuiltOver(n) /\ Len(ret.args[1]) = index.d /\ ret.args[2] > n) =>
            /\ ret.err = "none"
            /\ Len(ret.val) = n
            /\ \A i, j \in 1..Len(ret.val) :
                 i # j => ret.val[i].document # ret.val[j].document

\* the errors a mismatch of dimension or count at build may be reported with
DimensionMismatchErrors == {"AssertionError", "ValueError"}

\* C3: build_index fails with a DimensionMismatch error whenever the number of
\* vectors differs from the number of documents or the vectors' dimension
\* differs from the index dimension: no such build completes
C3_MismatchRejected ==
    (/\ ret.op = "build_index"
     /\ (ret.args[1] # ret.args[3] \/ ret.args[2] # dimension)) =>
        ret.err \in DimensionMismatchErrors

\* the exceptions a call made before its prerequisite stage may be reported
\* with
InvalidStateErrors == {"ValueError", "AttributeError", "IndexError"}

\* self.index is None, or the build_index call just made raised before it
\* filled the index it assigned
IndexNotBuilt == index.is_none \/ (ret.op = "build_index" /\ ret.err # "none")

\* C5: create_chunks before documents are loaded, and search before
\* build_index has built the index, fail with an InvalidState error and leave
\* the object's state unchanged
C5_InvalidState ==
    [][/\ (ret'.op = "create_chunks" /\ kb_documents = <<>>) =>
             (ret'.err \in InvalidStateErrors /\ UNCHANGED kbVars)
       /\ (ret'.op = "search" /\ IndexNotBuilt /\ Len(ret'.args[1]) = dimension) =>
             (ret'.err \in InvalidStateErrors /\ UNCHANGED rsVars)]_vars

\* C10: the results of a search are in ascending distance and the i-th result
\* has rank i
C10_RankOrdering ==
    Searched =>
        /\ \A i \in 1..Len(ret.val) : ret.val[i].rank = i
        /\ \A i \in 1..(Len(ret.val) - 1) : ret.val[i].distance <= ret.val[i + 1].distance

\* a search over a consistently built index that returned two entries at
\* different distances, the nearer one inserted last
C10_Witness ==
    /\ Searched /\ BuiltOver(2) /\ Len(ret.val) = 2
    /\ ret.val[1].distance < ret.val[2].distance
    /\ ret.val[1].document = rs_documents[2]


----------------------------------------------------------------------------
(* Claims about Generation *)

\* the Generation object was constructed in LLM mode
BuiltInLlmMode == gen_args.use_llm /\ gen_args.list_ok

\* C1: in LLM mode, a generate call whose completion raises or returns a
\* malformed response raises nothing and returns the template answer for its
\* prompt and results
C1_FallbackGuarantee ==
    (BuiltInLlmMode /\ gen_ret.op = "generate" /\ gen_ret.args.chat # "ok") =>
        /\ gen_ret.err = "none"
        /\ gen_ret.val.mode = "template"
        /\ gen_ret.val = _generate_template(gen_ret.args.prompt, gen_ret.args.results).val

\* a malformed response answered with the template, over results one of
\* which fills a slot faiss could not
C1_Witness ==
    /\ BuiltInLlmMode /\ gen_ret.op = "generate" /\ gen_ret.args.chat = "no_content"
    /\ gen_ret.err = "none" /\ gen_ret.val.mode = "template"
    /\ gen_ret.val.found >= 2
    /\ \E i \in 1..Len(gen_ret.args.results) : gen_ret.args.results[i].distance = FLT_MAX

\* C6: on a Generation constructed in LLM mode, every generate call, failed
\* or not, leaves use_llm set, and every call goes to the completion backend
C6_DegradesPerCall ==
    [][BuiltInLlmMode => (use_llm /\ use_llm' /\ chat_calls' = chat_calls + 1)]_vars

\* a second call that went to the backend and failed, use_llm still set
C6_Witness ==
    /\ BuiltInLlmMode /\ use_llm /\ chat_calls = 2
    /\ gen_ret.op = "generate" /\ gen_ret.args.chat = "raises"
    /\ gen_ret.val.mode = "template"

\* C7: constructed with use_llm=False, or with a failing health check, the
\* object is in template mode for good: no call reaches the completion backend
\* and every generate call returns the template answer of its results
C7_TemplatePermanent ==
    ~BuiltInLlmMode =>
        /\ ~use_llm
        /\ chat_calls = 0
        /\ gen_ret.op = "generate" =>
             /\ gen_ret.err = "none"
             /\ gen_ret.val = _generate_template(gen_ret.args.prompt, gen_ret.args.results).val

\* use_llm=True with a failing health check, then a generate call whose
\* answer cuts a long chunk to its preview
C7_Witness ==
    /\ gen_args.use_llm /\ ~gen_args.list_ok
    /\ gen_ret.op = "generate" /\ gen_ret.val.mode = "template"
    /\ \E i \in 1..Len(gen_ret.val.passages) :
         Len(gen_ret.val.passages[i].preview) = TemplatePreviewLen + 3


----------------------------------------------------------------------------
(* Claims about Augmentation *)

\* text continues at position at with piece
HasAt(t, at, piece) ==
    /\ at + Len(piece) - 1 <= Len(t)
    /\ SubSeq(t, at, at + Len(piece) - 1) = piece

\* what a context block shows of a result: its page number, its similarity
\* as a percentage, its chunk text, each on a line of its own
BlockOf(result) ==
    PageOpen \o Str(result.document.page) \o <<"]", "\n">>
      \o RelevanceLabel \o Percent2Str(result.similarity) \o <<"\n">>
      \o result.document.chunk \o <<"\n">>

\* from position at on, t holds the blocks of results i, i + 1, ... in that
\* order, a separator line between two of them, and ends at position last
RECURSIVE BlocksFrom(_, _, _, _, _)
BlocksFrom(t, at, last, results, i) ==
    IF i > Len(results) THEN at = last + 1
    ELSE /\ HasAt(t, at, BlockOf(results[i]))
         /\ IF i = Len(results)
            THEN at + Len(BlockOf(results[i])) = last + 1
            ELSE /\ HasAt(t, at + Len(BlockOf(results[i])), Separator)
                 /\ BlocksFrom(t, at + Len(BlockOf(results[i])) + Len(Separator),
                               last, results, i + 1)

----------------------------------------------------------------------------
(* Claims about a rebuild under search *)

\* what search may return over a complete index and its document list
ResultsOver(rows, docs, q, top_k) ==
    LET ix == BuiltIndex(dimension, rows)
    IN {FormatResults(docs, labels, FaissDistances(ix, q, labels)) :
          labels \in FaissLabels(ix, q, top_k)}

\* C4: a search in flight during a rebuild sees the complete old index with
\* the old documents or the complete new index with the new documents: what
\* it returns is what a search over one of the two returns
C4_AtomicRebuild ==
    /\ s_pc # "raised"
    /\ s_pc = "returned" =>
         \/ s_results \in ResultsOver(b_args.old_rows, b_args.old_docs,
                                      s_args.args[1], s_args.args[2])
         \/ /\ b_pc # "idle"
            /\ s_results \in ResultsOver(b_args.rows, b_args.docs,
                                         s_args.args[1], s_args.args[2])

====
